---- MODULE Spec2Model ----
(***************************************************************************)
(* The task-orchestration state machine of the security scanner.           *)
(*                                                                         *)
(* Three revisions of the workflow live in the repository:                 *)
(*   "main"        src/main.py         plan -> execute -> analyze -> update *)
(*                                     (retry counter, target discovery)   *)
(*   "scanner"     src/scanner.py      plan -> execute* -> analyze          *)
(*                                     (fail-fast)                         *)
(*   "src_scanner" src/src/scanner.py  as "scanner", other analyzer        *)
(*                                                                         *)
(* A node of the graph and the routing function that follows it are one    *)
(* step: pc names the node that runs next.  The state dict is handed to    *)
(* nodes and routing functions by reference, as the functions are written: *)
(* an assignment a routing function makes to the state is kept.            *)
(* Optional values are sequences: <<>> is None, <<x>> is the value x.       *)
(***************************************************************************)
EXTENDS Integers, Sequences, FiniteSets, TLC

\* The ScanState (target, tasks, current_task_index, discovered_targets, errors,
\* analysis), the revision that runs (variant), the node that runs next (pc),
\* and what an observer of the run records: the planner's answer (plan), the
\* nodes run with the cursor each was entered at (trace), and the argument
\* vectors of the processes spawned (spawned).
VARIABLES variant, target, tasks, current_task_index, discovered_targets,
          errors, analysis, pc, plan, trace, spawned

vars == <<variant, target, tasks, current_task_index, discovered_targets,
          errors, analysis, pc, plan, trace, spawned>>

\* ------------------------------------------------------------------ bounds
\* Longest plan the planner's answer holds.
MaxPlan == 2
\* Longest new_targets list an analysis answer holds.
MaxNew == 2
\* Most calls the direct driver of the executor makes (ExecSpec).
MaxCalls == 6

\* -------------------------------------------------------- program constants
\* The retry cap of the executor.
MaxRetries == 3

\* ------------------------------------------------------------------ values
None == <<>>
Some(x) == <<x>>

Variants == {"main", "scanner", "src_scanner"}

\* The run's target, and what the external collaborators may name.
OriginalTarget == "h1"
Injection == "h1; rm -rf /"
NonString == "<123>"
NewTargetItems == {"H1", "h2", "H2", NonString}

\* str.lower() on the values above.
Lower(s) ==
    CASE s = "H1" -> "h1"
      [] s = "H2" -> "h2"
      [] OTHER -> s

\* str.split() / shlex.split() on the values above.
Tokens(s) ==
    CASE s = Injection -> <<"h1;", "rm", "-rf", "/">>
      [] s = "-v -sV -p-" -> <<"-v", "-sV", "-p-">>
      [] OTHER -> <<s>>

SeqsUpTo(S, n) == UNION {[1..k -> S] : k \in 0..n}

\* ------------------------------------------------------------ Task Record
TaskInfo(tool, t, flags) ==
    [tool |-> tool, target |-> t, flags |-> flags, status |-> "pending",
     result |-> None, retries |-> 0, analysis |-> None, error |-> None]

\* ------------------------------------------------- the reasoning capability
\* One entry of the planner's answer; fields names the keys it carries.
PlanEntries ==
    {[tool |-> "nmap", target |-> "h1", fields |-> {"tool", "params"}],
     [tool |-> "gobuster", target |-> "h2", fields |-> {"tool", "params"}],
     [tool |-> "whois", target |-> "h1", fields |-> {"tool", "params"}],
     [tool |-> "nmap", target |-> Injection, fields |-> {"tool", "params"}],
     [tool |-> "nmap", target |-> "h1", fields |-> {"tool"}],
     [tool |-> "nmap", target |-> "h1", fields |-> {"params"}]}

\* The planner chain either raises or returns {"tasks": [...]}.
PlanAnswers ==
    {[kind |-> "raise", tasks |-> <<>>]}
      \cup {[kind |-> "json", tasks |-> s] : s \in SeqsUpTo(PlanEntries, MaxPlan)}

\* ------------------------------------------------------------------- Init
\* run_security_scan builds the initial ScanState.
Init ==
    /\ variant \in Variants
    /\ target = OriginalTarget
    /\ tasks = <<>>
    /\ current_task_index = 0
    /\ discovered_targets = <<OriginalTarget>>
    /\ errors = <<>>
    /\ analysis = None
    /\ pc = "plan"
    /\ plan = None
    /\ trace = <<>>
    /\ spawned = {}

\* ------------------------------------------------------------------- plan
EntryOk(e) == {"tool", "params"} \subseteq e.fields

\* The tasks built before the first entry that lacks a key.
RECURSIVE UsablePrefix(_)
UsablePrefix(entries) ==
    IF entries = <<>> \/ ~EntryOk(Head(entries)) THEN <<>>
    ELSE <<TaskInfo(Head(entries).tool, Head(entries).target, None)>>
           \o UsablePrefix(Tail(entries))

PlannedTasksPartial(answer) == UsablePrefix(answer.tasks)

\* The list comprehension of _plan_tasks: a KeyError on any entry leaves
\* state["tasks"] unassigned.
PlannedTasks(answer) ==
    IF answer.kind = "json" /\ \A i \in 1..Len(answer.tasks) : EntryOk(answer.tasks[i])
    THEN [i \in 1..Len(answer.tasks) |->
            TaskInfo(answer.tasks[i].tool, answer.tasks[i].target, None)]
    ELSE <<>>

PlanRaises(answer) ==
    \/ answer.kind = "raise"
    \/ \E i \in 1..Len(answer.tasks) : ~EntryOk(answer.tasks[i])

route_after_plan_always_execute(ts) == "execute"

route_after_plan(ts) == IF ts # <<>> THEN "execute" ELSE "END"

Plan ==
    /\ pc = "plan"
    /\ \E answer \in PlanAnswers :
         /\ plan' = Some(answer)
         /\ tasks' = PlannedTasks(answer)
         /\ errors' = IF PlanRaises(answer)
                      THEN Append(errors, "Task planning error")
                      ELSE errors
         /\ pc' = route_after_plan(tasks')
    /\ trace' = Append(trace, [node |-> "plan", index |-> current_task_index])
    /\ UNCHANGED <<variant, target, current_task_index, discovered_targets,
                   analysis, spawned>>

\* --------------------------------------------- the tool-invocation capability
\* What the spawned process does: prints and exits 0, prints nothing and
\* exits 0, exits non-zero, or outlives the 300 second timeout.
ProcOutcomes == {"ok", "empty", "nonzero", "timeout"}

Raised(argv) == [raised |-> TRUE, result |-> None, spawn |-> argv]
Returned(r, argv) == [raised |-> FALSE, result |-> Some(r), spawn |-> argv]

\* subprocess.run(shlex.split(command), capture_output, timeout=300) and the
\* dict _run_nmap / _run_gobuster build from it.
subprocess_run(argv, proc) ==
    CASE proc = "timeout" -> Raised({argv})
      [] proc = "ok" ->
           Returned([output |-> "stdout", error |-> None, returncode |-> None], {argv})
      [] proc = "empty" ->
           Returned([output |-> "", error |-> None, returncode |-> None], {argv})
      [] OTHER ->
           Returned([output |-> "stdout", error |-> Some("stderr"),
                     returncode |-> None], {argv})

DefaultFlags(t) == IF t.flags = None THEN "-sV" ELSE t.flags[1]

run_nmap_main(t, proc) ==
    subprocess_run(<<"nmap">> \o Tokens(DefaultFlags(t)) \o Tokens(t.target), proc)

run_gobuster_main(t, proc) ==
    subprocess_run(<<"gobuster", "dir", "-u">> \o Tokens(t.target)
                     \o <<"-w", "/usr/share/wordlists/dirb/common.txt">>, proc)

\* utils.run_command: Popen(command.split()), communicate(timeout=300); every
\* outcome, the timeout included, comes back as a dict with an output.
run_command(argv, proc) ==
    CASE proc = "timeout" ->
           Returned([output |-> "Command timed out after 300 seconds",
                     error |-> Some("timeout"), returncode |-> Some(-1)], {argv})
      [] proc = "ok" ->
           Returned([output |-> "stdout", error |-> None, returncode |-> Some(0)], {argv})
      [] proc = "empty" ->
           Returned([output |-> "No output generated", error |-> None,
                     returncode |-> Some(0)], {argv})
      [] OTHER ->
           Returned([output |-> "stdout\nError: stderr", error |-> None,
                     returncode |-> Some(1)], {argv})

\* ----------------------------------------------------- execute, src/main.py
\* The try block of _execute_current_task: the adapter chosen by the tool.
RunToolMain(t, proc) ==
    CASE t.tool = "nmap" -> run_nmap_main(t, proc)
      [] t.tool = "gobuster" -> run_gobuster_main(t, proc)
      [] OTHER -> Raised({})

RetryAllowedOffByOne(retries) == retries <= MaxRetries

RetryAllowed(retries) == retries < MaxRetries

\* current_task["status"] = "running", before the try block.
Started(t) == [t EXCEPT !.status = "running"]

ExecutedTaskMainStoringFlags(t, out) ==
    IF ~out.raised
    THEN [Started(t) EXCEPT !.result = out.result, !.status = "completed",
                   !.flags = Some(DefaultFlags(t))]
    ELSE IF RetryAllowed(t.retries)
         THEN [Started(t) EXCEPT !.retries = t.retries + 1, !.status = "pending"]
         ELSE [Started(t) EXCEPT !.status = "failed"]

\* The task after one attempt.
ExecutedTaskMain(t, out) ==
    IF ~out.raised
    THEN [Started(t) EXCEPT !.result = out.result, !.status = "completed"]
    ELSE IF RetryAllowed(t.retries)
         THEN [Started(t) EXCEPT !.retries = t.retries + 1, !.status = "pending"]
         ELSE [Started(t) EXCEPT !.status = "failed"]

ExecutedErrorsMainEveryFailure(t, out, errs) ==
    IF out.raised THEN Append(errs, "Task execution failed") ELSE errs

\* The error log after one attempt.
ExecutedErrorsMain(t, out, errs) ==
    IF out.raised /\ ~RetryAllowed(t.retries)
    THEN Append(errs, "Task execution failed")
    ELSE errs

route_after_execute_main(errs) == IF errs # <<>> THEN "END" ELSE "analyze"

\* _execute_current_task on the state, the process behaving as proc.
execute_current_task_main(proc) ==
    LET t == tasks[current_task_index + 1]
        out == RunToolMain(t, proc)
    IN /\ tasks' = [tasks EXCEPT ![current_task_index + 1] = ExecutedTaskMain(t, out)]
       /\ errors' = ExecutedErrorsMain(t, out, errors)
       /\ spawned' = spawned \cup out.spawn
       /\ trace' = Append(trace, [node |-> "execute", index |-> current_task_index])

\* state["tasks"][state["current_task_index"]] stands outside the try block:
\* past the end of the list it raises out of the graph, and run_security_scan
\* of src/main.py does not catch it.
ExecuteMain ==
    /\ pc = "execute"
    /\ variant = "main"
    /\ IF current_task_index < Len(tasks)
       THEN /\ \E proc \in ProcOutcomes : execute_current_task_main(proc)
            /\ pc' = route_after_execute_main(errors')
       ELSE /\ pc' = "RAISED"
            /\ UNCHANGED <<tasks, errors, spawned, trace>>
    /\ UNCHANGED <<variant, target, current_task_index, discovered_targets, analysis, plan>>

\* ------------------------------------------------- execute, src/scanner.py
\* The try block of _execute_current_task: command construction, run_command,
\* and the check of the output.
RunToolScanner(t, proc) ==
    LET out ==
          CASE t.tool = "nmap" ->
                 run_command(<<"nmap">> \o Tokens("-v -sV -p-") \o Tokens(t.target), proc)
            [] t.tool = "gobuster" ->
                 run_command(<<"gobuster", "dir", "-u">>
                               \o <<"http://" \o Head(Tokens(t.target))>>
                               \o Tail(Tokens(t.target))
                               \o <<"-w", "/usr/share/wordlists/dirb/common.txt",
                                    "-t", "50">>, proc)
            [] OTHER -> Raised({})
    IN IF ~out.raised /\ out.result[1].output = ""
       THEN Raised(out.spawn)
       ELSE out

ExecutedTaskScannerErrorOnly(t, out) ==
    IF ~out.raised
    THEN [Started(t) EXCEPT !.result = out.result, !.status = "completed"]
    ELSE [Started(t) EXCEPT !.error = Some("error")]

ExecutedTaskScanner(t, out) ==
    IF ~out.raised
    THEN [Started(t) EXCEPT !.result = out.result, !.status = "completed"]
    ELSE [Started(t) EXCEPT !.status = "failed", !.error = Some("error")]

ExecutedErrorsScanner(out, errs) ==
    IF out.raised THEN Append(errs, "Task execution failed") ELSE errs

AdvanceCursorNever(i) == i

AdvanceCursorTwice(i) == i + 2

AdvanceCursor(i) == i + 1

route_after_execute_ignoring_errors(errs, i, n) ==
    IF i >= n THEN "analyze" ELSE "execute"

route_after_execute_cursor_first(errs, i, n) ==
    IF i >= n THEN "analyze"
    ELSE IF errs # <<>> THEN "END" ELSE "execute"

route_after_execute_scanner(errs, i, n) ==
    IF errs # <<>> THEN "END"
    ELSE IF i >= n THEN "analyze" ELSE "execute"

\* Past the end of the list the lookup raises out of the graph, and
\* run_security_scan returns a fresh ScanState holding one "Workflow error".
ExecuteScanner ==
    /\ pc = "execute"
    /\ variant \in {"scanner", "src_scanner"}
    /\ IF current_task_index < Len(tasks)
       THEN /\ \E proc \in ProcOutcomes :
                 LET t == tasks[current_task_index + 1]
                     out == RunToolScanner(t, proc)
                 IN /\ tasks' = [tasks EXCEPT ![current_task_index + 1] =
                                   ExecutedTaskScanner(t, out)]
                    /\ errors' = ExecutedErrorsScanner(out, errors)
                    /\ spawned' = spawned \cup out.spawn
            /\ current_task_index' = AdvanceCursor(current_task_index)
            /\ trace' = Append(trace, [node |-> "execute", index |-> current_task_index])
            /\ pc' = route_after_execute_scanner(errors', current_task_index', Len(tasks'))
            /\ UNCHANGED <<discovered_targets, analysis>>
       ELSE /\ tasks' = <<>>
            /\ current_task_index' = 0
            /\ discovered_targets' = <<target>>
            /\ errors' = <<"Workflow error">>
            /\ analysis' = None
            /\ pc' = "END"
            /\ UNCHANGED <<spawned, trace>>
    /\ UNCHANGED <<variant, target, plan>>

\* ----------------------------------------------------- analyze, src/main.py
\* What the per-task analysis chain returns: it raises, or it returns a dict
\* whose "new_targets" key is absent, null, or a list.
AnalysisAnswers ==
    {[kind |-> "raise", nt |-> "absent", new_targets |-> <<>>],
     [kind |-> "json", nt |-> "absent", new_targets |-> <<>>],
     [kind |-> "json", nt |-> "null", new_targets |-> <<>>]}
      \cup {[kind |-> "json", nt |-> "list", new_targets |-> s] :
              s \in SeqsUpTo(NewTargetItems, MaxNew)}

InSeq(x, s) == \E i \in 1..Len(s) : s[i] = x

\* [target for target in new_targets if target not in discovered_targets]:
\* the filter reads the list as it was before the extend.
NewlyDiscovered(items, known) == SelectSeq(items, LAMBDA x : ~InSeq(x, known))

\* The exception of the try block, if any.
AnalyzeRaisesMain(answer) == answer.kind = "raise" \/ answer.nt = "null"

route_after_analyze_main == "update"

AnalyzeMain ==
    /\ pc = "analyze"
    /\ variant = "main"
    /\ LET t == tasks[current_task_index + 1]
       IN IF t.status # "completed"
          THEN UNCHANGED <<tasks, discovered_targets, errors>>
          ELSE \E answer \in AnalysisAnswers :
                 /\ tasks' = IF answer.kind = "raise" THEN tasks
                             ELSE [tasks EXCEPT ![current_task_index + 1].analysis =
                                     Some([nt |-> answer.nt,
                                           new_targets |-> answer.new_targets])]
                 /\ discovered_targets' =
                      IF answer.kind = "json" /\ answer.nt = "list"
                      THEN discovered_targets
                             \o NewlyDiscovered(answer.new_targets, discovered_targets)
                      ELSE discovered_targets
                 /\ errors' = IF AnalyzeRaisesMain(answer)
                              THEN Append(errors, "Analysis error")
                              ELSE errors
    /\ trace' = Append(trace, [node |-> "analyze", index |-> current_task_index])
    /\ pc' = route_after_analyze_main
    /\ UNCHANGED <<variant, target, current_task_index, analysis, plan, spawned>>

\* ------------------------------------------------------ update, src/main.py
AlreadyScheduledExact(ts, x) == \E i \in 1..Len(ts) : ts[i].target = x

\* task["params"].get("target", "").lower() == target.lower() for some task.
AlreadyScheduled(ts, x) == \E i \in 1..Len(ts) : Lower(ts[i].target) = Lower(x)

\* The task appended for a new target, by the tool of the current task.
FollowUp(tool, x) ==
    IF tool = "nmap" THEN <<TaskInfo("nmap", x, Some("-sV"))>>
    ELSE IF tool = "gobuster" THEN <<TaskInfo("gobuster", x, None)>>
    ELSE <<>>

RECURSIVE UpdateLoopKeepingOriginal(_, _, _, _)
UpdateLoopKeepingOriginal(ts, items, tool, orig) ==
    IF items = <<>> THEN [tasks |-> ts, raised |-> FALSE]
    ELSE LET x == Head(items)
         IN IF x = NonString THEN [tasks |-> ts, raised |-> TRUE]
            ELSE IF AlreadyScheduled(ts, x)
                 THEN UpdateLoopKeepingOriginal(ts, Tail(items), tool, orig)
            ELSE UpdateLoopKeepingOriginal(ts \o FollowUp(tool, x), Tail(items),
                                           tool, orig)

\* The for loop over new_targets: the task list it leaves and whether it
\* raised (target.lower() on an entry that is no string).
RECURSIVE UpdateLoop(_, _, _, _)
UpdateLoop(ts, items, tool, orig) ==
    IF items = <<>> THEN [tasks |-> ts, raised |-> FALSE]
    ELSE LET x == Head(items)
         IN IF x = NonString THEN [tasks |-> ts, raised |-> TRUE]
            ELSE IF Lower(x) = Lower(orig) THEN UpdateLoop(ts, Tail(items), tool, orig)
            ELSE IF AlreadyScheduled(ts, x) THEN UpdateLoop(ts, Tail(items), tool, orig)
            ELSE UpdateLoop(ts \o FollowUp(tool, x), Tail(items), tool, orig)

\* _update_task_list on a task list, the cursor i and the run's target.
update_task_list(ts, i, orig) ==
    LET t == ts[i + 1]
    IN IF t.analysis = None THEN [tasks |-> ts, raised |-> FALSE]
       ELSE IF t.analysis[1].nt = "null" THEN [tasks |-> ts, raised |-> TRUE]
       ELSE UpdateLoop(ts, t.analysis[1].new_targets, t.tool, orig)

route_after_update_same_task(i, n) ==
    IF i < n - 1 THEN [next |-> "execute", index |-> i]
    ELSE [next |-> "END", index |-> i]

route_after_update_unbounded(i, n) == [next |-> "execute", index |-> i + 1]

\* The routing function moves the cursor itself.
route_after_update(i, n) ==
    IF i < n - 1 THEN [next |-> "execute", index |-> i + 1]
    ELSE [next |-> "END", index |-> i]

Update ==
    /\ pc = "update"
    /\ variant = "main"
    /\ LET u == update_task_list(tasks, current_task_index, target)
           r == route_after_update(current_task_index, Len(u.tasks))
       IN /\ tasks' = u.tasks
          /\ errors' = IF u.raised THEN Append(errors, "Task update error") ELSE errors
          /\ current_task_index' = r.index
          /\ pc' = r.next
    /\ trace' = Append(trace, [node |-> "update", index |-> current_task_index])
    /\ UNCHANGED <<variant, target, discovered_targets, analysis, plan, spawned>>

\* ----------------------------- analyze, src/scanner.py and src/src/scanner.py
LowFinding == [type |-> "security_finding", severity |-> "low"]

\* What the summary chain returns: it raises, or it returns a dict holding the
\* keys in keys.
FinalAnswers ==
    {[kind |-> "raise", keys |-> {}, findings |-> <<>>, recommendations |-> <<>>,
      risk_assessment |-> "low"]}
      \cup {[kind |-> "json", keys |-> k, findings |-> f,
             recommendations |-> IF "recommendations" \in k THEN <<"fix">> ELSE <<>>,
             risk_assessment |-> r] :
              k \in SUBSET {"findings", "recommendations", "risk_assessment"},
              f \in {<<>>, <<LowFinding>>},
              r \in {"low", "high"}}

\* The answers the chain can give: an absent key carries no value.
WellFormedFinal(a) ==
    /\ ("findings" \notin a.keys => a.findings = <<>>)
    /\ ("risk_assessment" \notin a.keys => a.risk_assessment = "low")

Analysis(k, f, rec, risk) ==
    [keys |-> k, findings |-> f, recommendations |-> rec, risk_assessment |-> risk]

\* The tasks the summary is built from.
Summarised(ts) ==
    {i \in 1..Len(ts) : ts[i].status = "completed" /\ ts[i].result # None}

FallbackScanner ==
    Analysis({"findings", "recommendations", "risk_assessment"},
             <<[type |-> "error", severity |-> "unknown"]>>,
             <<"Manual security review recommended">>, "unknown")

FallbackSrcScanner ==
    Analysis({"findings", "recommendations", "risk_assessment"},
             <<[type |-> "scan_analysis", severity |-> "medium"]>>,
             <<"Review raw scan results manually",
               "Try running the scan again with different parameters">>, "medium")

\* not analysis.get(key)
Falsy(a, key) ==
    \/ key \notin a.keys
    \/ key = "findings" /\ a.findings = <<>>
    \/ key = "recommendations" /\ a.recommendations = <<>>

\* src/scanner.py backfills the findings alone.
BackfillScanner(a) ==
    IF Falsy(a, "findings")
    THEN Analysis(a.keys \cup {"findings"},
                  <<[type |-> "information", severity |-> "low"]>>,
                  a.recommendations, a.risk_assessment)
    ELSE Analysis(a.keys, a.findings, a.recommendations, a.risk_assessment)

\* src/src/scanner.py backfills all three fields.
BackfillSrcScanner(a) ==
    Analysis({"findings", "recommendations", "risk_assessment"},
             IF Falsy(a, "findings")
             THEN <<[type |-> "scan_complete", severity |-> "low"]>>
             ELSE a.findings,
             IF Falsy(a, "recommendations")
             THEN <<"Continue regular security monitoring">>
             ELSE a.recommendations,
             IF Falsy(a, "risk_assessment") THEN "low" ELSE a.risk_assessment)

\* The exception of the try block, if any: src/scanner.py refuses an empty
\* summary before it calls the chain.
AnalyzeRaisesScanner(v, ts, answer) ==
    \/ v = "scanner" /\ Summarised(ts) = {}
    \/ answer.kind = "raise"

analyze_results_scanner(v, ts, answer) ==
    IF AnalyzeRaisesScanner(v, ts, answer)
    THEN IF v = "scanner" THEN FallbackScanner ELSE FallbackSrcScanner
    ELSE IF v = "scanner" THEN BackfillScanner(answer) ELSE BackfillSrcScanner(answer)

route_after_analyze_scanner == "END"

AnalyzeScanner ==
    /\ pc = "analyze"
    /\ variant \in {"scanner", "src_scanner"}
    /\ \E answer \in {a \in FinalAnswers : WellFormedFinal(a)} :
         /\ analysis' = Some(analyze_results_scanner(variant, tasks, answer))
         /\ errors' = IF AnalyzeRaisesScanner(variant, tasks, answer)
                      THEN Append(errors, "Analysis error")
                      ELSE errors
    /\ trace' = Append(trace, [node |-> "analyze", index |-> current_task_index])
    /\ pc' = route_after_analyze_scanner
    /\ UNCHANGED <<variant, target, tasks, current_task_index, discovered_targets,
                   plan, spawned>>

Next ==
    \/ Plan
    \/ ExecuteMain
    \/ ExecuteScanner
    \/ AnalyzeMain
    \/ AnalyzeScanner
    \/ Update

Spec == Init /\ [][Next]_vars

\* The graph runtime runs the node pc names whenever there is one: every
\* external call returns.
FairSpec == Spec /\ WF_vars(Next)

\* ------------------------------------------- the fail-fast revisions alone
\* The three-node graph of src/scanner.py and src/src/scanner.py.
InitScanner == Init /\ variant \in {"scanner", "src_scanner"}

NextScanner ==
    \/ Plan
    \/ ExecuteScanner
    \/ AnalyzeScanner

ScannerSpec == InitScanner /\ [][NextScanner]_vars

\* ---------------------------------------------- the executor driven directly
\* The executor of src/main.py applied again and again to the planned state at
\* an unmoved cursor: the re-attempts its retry counter provides for.
ExecuteAgain ==
    /\ pc = "execute"
    /\ variant = "main"
    /\ Len(trace) < MaxCalls
    /\ \E proc \in ProcOutcomes : execute_current_task_main(proc)
    /\ UNCHANGED <<variant, target, current_task_index, discovered_targets, analysis,
                   pc, plan>>

NextExec ==
    \/ Plan
    \/ ExecuteAgain

ExecSpec == Init /\ [][NextExec]_vars

\* ---------------------------------------------- the analyzer driven directly
\* _analyze_results of src/scanner.py and src/src/scanner.py called on a state
\* the routing would not hand it: tasks still pending, or a run that an
\* execution failure ended.
AnalyzeDirectly ==
    /\ pc \in {"execute", "END"}
    /\ variant \in {"scanner", "src_scanner"}
    /\ plan # None
    /\ analysis = None
    /\ \E answer \in {a \in FinalAnswers : WellFormedFinal(a)} :
         /\ analysis' = Some(analyze_results_scanner(variant, tasks, answer))
         /\ errors' = IF AnalyzeRaisesScanner(variant, tasks, answer)
                      THEN Append(errors, "Analysis error")
                      ELSE errors
    /\ trace' = Append(trace, [node |-> "analyze", index |-> current_task_index])
    /\ pc' = "END"
    /\ UNCHANGED <<variant, target, tasks, current_task_index, discovered_targets,
                   plan, spawned>>

NextAnalyzer ==
    \/ Plan
    \/ ExecuteScanner
    \/ AnalyzeScanner
    \/ AnalyzeDirectly

AnalyzerSpec == InitScanner /\ [][NextAnalyzer]_vars

\* ----------------------------------------------- the updater driven directly
\* _update_task_list of src/main.py applied again and again to the state the
\* analyzer left, the cursor and the per-task analysis unmoved.
UpdateAgain ==
    /\ pc = "update"
    /\ variant = "main"
    /\ Len(trace) < MaxCalls
    /\ LET u == update_task_list(tasks, current_task_index, target)
       IN /\ tasks' = u.tasks
          /\ errors' = IF u.raised THEN Append(errors, "Task update error") ELSE errors
    /\ trace' = Append(trace, [node |-> "update", index |-> current_task_index])
    /\ UNCHANGED <<variant, target, current_task_index, discovered_targets, analysis,
                   pc, plan, spawned>>

NextUpdater ==
    \/ Plan
    \/ ExecuteMain
    \/ AnalyzeMain
    \/ UpdateAgain

UpdaterSpec == Init /\ [][NextUpdater]_vars

\* ------------------------------------------------------- reading the trace
\* The cursors of the tasks handed to the executor so far.
ExecutedIndices ==
    {trace[k].index : k \in {j \in 1..Len(trace) : trace[j].node = "execute"}}

\* The step is an execution attempt on tasks[i].
AttemptOn(i) ==
    trace' = Append(trace, [node |-> "execute", index |-> i - 1])

\* ------------------------------------------------------------------ claims

\* C1: in the retry variant every task has retries <= 3 in every state, and
\* an execution attempt that fails while the task's retries already equal 3
\* leaves the task failed, its retries unchanged, and appends exactly one
\* "Task execution failed" entry to the error log.
C1_RetryCap ==
    /\ [](\A i \in 1..Len(tasks) : tasks[i].retries <= 3)
    /\ [][\A i \in 1..Len(tasks) :
            (AttemptOn(i) /\ tasks[i].retries = 3 /\ tasks'[i].status # "completed")
              => /\ tasks'[i].status = "failed"
                 /\ tasks'[i].retries = 3
                 /\ errors' = Append(errors, "Task execution failed")]_vars

\* A fourth failed attempt has left the task failed with the cap consumed and
\* one entry in the log.
C1_Witness ==
    /\ tasks # <<>>
    /\ tasks[1].status = "failed"
    /\ tasks[1].retries = 3
    /\ errors = <<"Task execution failed">>

\* C2: in the retry variant the cursor moves past a task only once that task
\* is completed or failed; a task set back to pending is the one dispatched
\* next.
C2_RetrySameTask ==
    [][(variant = "main" /\ current_task_index' # current_task_index)
         => tasks[current_task_index + 1].status \in {"completed", "failed"}]_vars

\* C3: a run that ends with an empty error log has every task completed.
C3_EmptyLogMeansAllCompleted ==
    (pc = "END" /\ errors = <<>>)
      => \A i \in 1..Len(tasks) : tasks[i].status = "completed"

\* C4: the cursor never exceeds len(tasks), and from each node's entry to the
\* next observation it never decreases.
C4_CursorMonotoneBounded ==
    /\ current_task_index <= Len(tasks)
    /\ \A k \in 1..Len(trace) :
         trace[k].index <= (IF k = Len(trace) THEN current_task_index
                            ELSE trace[k + 1].index)

\* The cursor has walked over a two-task list.
C4_Witness == current_task_index = 2 /\ Len(tasks) = 2

\* C5: in the fail-fast revisions, once an execute stage has logged a failure
\* the run is over: the failing attempt is the last node run, analysis is None
\* and no later task was handed to the executor.
C5_FailFast ==
    (variant \in {"scanner", "src_scanner"} /\ InSeq("Task execution failed", errors))
      => /\ pc = "END"
         /\ analysis = None
         /\ \E i \in 1..Len(tasks) :
              /\ tasks[i].status = "failed"
              /\ trace[Len(trace)] = [node |-> "execute", index |-> i - 1]
              /\ \A j \in (i + 1)..Len(tasks) :
                   /\ (j - 1) \notin ExecutedIndices
                   /\ tasks[j].status = "pending"

\* The first of two tasks failed and the run ended with the second untouched.
C5_Witness ==
    /\ variant = "scanner"
    /\ Len(tasks) = 2
    /\ tasks[1].status = "failed"
    /\ pc = "END"

\* C6: once the error log is non-empty the Router goes to the terminal state:
\* no node is scheduled to run.
C6_AnyErrorTerminates == errors # <<>> => pc = "END"

\* C7: a failed analysis leaves an analysis in place and does not keep any
\* task of the list from being executed.
C7_AnalyzerFailureRecovered ==
    InSeq("Analysis error", errors)
      => /\ analysis # None
         /\ pc = "END" => \A i \in 1..Len(tasks) : (i - 1) \in ExecutedIndices

\* C8: when the plan stage leaves the task list empty the run is over at
\* once: the cursor is 0, analysis is None and plan is the one node run.
C8_EmptyPlanTerminates ==
    (plan # None /\ tasks = <<>>)
      => /\ pc = "END"
         /\ current_task_index = 0
         /\ analysis = None
         /\ Len(trace) = 1
         /\ trace[1].node = "plan"

\* The planner answered with an empty plan and the run ended without error.
C8_Witness ==
    /\ plan # None
    /\ plan[1].kind = "json"
    /\ plan[1].tasks = <<>>
    /\ pc = "END"
    /\ errors = <<>>

\* The planner's answer is unusable: the chain raised, or an entry lacks
\* "tool" or "params".
UnusablePlan(a) ==
    \/ a.kind = "raise"
    \/ \E i \in 1..Len(a.tasks) :
         "tool" \notin a.tasks[i].fields \/ "params" \notin a.tasks[i].fields

\* C9: an unusable answer of the planner leaves exactly one "Task planning
\* error" entry in the log and an empty task list.
C9_PlanningErrorLeavesNoTasks ==
    (plan # None /\ UnusablePlan(plan[1]))
      => /\ errors = <<"Task planning error">>
         /\ tasks = <<>>

\* A usable entry came before one without params, and nothing of it is kept.
C9_Witness ==
    /\ plan # None
    /\ plan[1].kind = "json"
    /\ Len(plan[1].tasks) = 2
    /\ plan[1].tasks[1].fields = {"tool", "params"}
    /\ plan[1].tasks[2].fields = {"tool"}
    /\ tasks = <<>>
    /\ pc = "END"

\* The command-validation gate: nmap with short flags and one host, or the
\* directory scan of one host.
SafeHosts == {"h1", "h2", "H1", "H2"}
ShortFlags == {"-sV", "-v", "-p-"}
Allowlisted(argv) ==
    \/ /\ Len(argv) >= 2
       /\ argv[1] = "nmap"
       /\ argv[Len(argv)] \in SafeHosts
       /\ \A k \in 2..(Len(argv) - 1) : argv[k] \in ShortFlags
    \/ /\ Len(argv) >= 4
       /\ SubSeq(argv, 1, 3) = <<"gobuster", "dir", "-u">>
       /\ argv[4] \in SafeHosts \cup {"http://" \o h : h \in SafeHosts}
       /\ \A k \in 5..Len(argv) :
            argv[k] \in {"-w", "/usr/share/wordlists/dirb/common.txt", "-t", "50"}

\* C10: every process spawned for a task runs a command the allowlist
\* accepts.
C10_OnlyAllowlistedSpawned == \A argv \in spawned : Allowlisted(argv)

\* The last node run was the updater.
JustUpdated == trace # <<>> /\ trace[Len(trace)].node = "update"

\* C11: the updater applied again to the state it left, under the same
\* per-task analysis, appends no task; and the tasks one application appends
\* have targets that differ pairwise, ignoring case.
C11_UpdaterIdempotent ==
    /\ [][(pc = "update" /\ JustUpdated) => tasks' = tasks]_vars
    /\ [][pc = "update"
            => \A i, j \in (Len(tasks) + 1)..Len(tasks') :
                 i # j => Lower(tasks'[i].target) # Lower(tasks'[j].target)]_vars

\* The updater ran twice on an analysis naming h2 in both cases, and one
\* task was appended in all.
C11_Witness ==
    /\ pc = "update"
    /\ Len(trace) >= 2
    /\ trace[Len(trace)].node = "update"
    /\ trace[Len(trace) - 1].node = "update"
    /\ tasks[current_task_index + 1].analysis # None
    /\ tasks[current_task_index + 1].analysis[1].new_targets = <<"h2", "H2">>
    /\ Len(tasks) = Len(plan[1].tasks) + 1

\* The length the planner gave the task list.
PlannedLen == IF plan = None THEN 0 ELSE Len(PlannedTasks(plan[1]))

\* C12: no task the updater appended has, ignoring case, the run's original
\* target or the target of a task that stands before it in the list.
C12_NoDuplicateFollowUp ==
    \A j \in (PlannedLen + 1)..Len(tasks) :
      /\ Lower(tasks[j].target) # Lower(target)
      /\ \A i \in 1..(j - 1) : Lower(tasks[i].target) # Lower(tasks[j].target)

\* The analysis of the first task named H1 and H2: H1 is the original target
\* in another case and was skipped, H2 got the one follow-up task.
C12_Witness ==
    /\ pc = "END"
    /\ PlannedLen = 1
    /\ Len(tasks) = 2
    /\ tasks[1].analysis # None
    /\ tasks[1].analysis[1].new_targets = <<"H1", "H2">>
    /\ tasks[2].target = "H2"

\* C13: discovered_targets holds the original target and no two of its
\* entries are equal ignoring case.
C13_DiscoveredTargetsSet ==
    /\ InSeq(target, discovered_targets)
    /\ \A i, j \in 1..Len(discovered_targets) :
         i # j => Lower(discovered_targets[i]) # Lower(discovered_targets[j])

\* C14: an execution attempt on a task whose tool is neither nmap nor
\* gobuster leaves the task failed, with the retries it had before.
C14_UnknownToolFails ==
    [][\A i \in 1..Len(tasks) :
         (AttemptOn(i) /\ tasks[i].tool \notin {"nmap", "gobuster"})
           => /\ tasks'[i].status = "failed"
              /\ tasks'[i].retries = tasks[i].retries]_vars

\* C15: a completed task has a result, and the output of that result is not
\* empty.
C15_CompletedHasOutput ==
    \A i \in 1..Len(tasks) :
      tasks[i].status = "completed"
        => /\ tasks[i].result # None
           /\ tasks[i].result[1].output # ""

\* The step is an attempt on tasks[i] whose process outlived the timeout.
TimedOutAttempt(i) ==
    /\ AttemptOn(i)
    /\ tasks[i].tool \in {"nmap", "gobuster"}
    /\ tasks'[i] = IF variant = "main"
                   THEN ExecutedTaskMain(tasks[i], RunToolMain(tasks[i], "timeout"))
                   ELSE ExecutedTaskScanner(tasks[i], RunToolScanner(tasks[i], "timeout"))

\* C16: an attempt whose process times out never leaves the task completed:
\* the retry revision counts one retry (below the cap), the fail-fast
\* revisions mark the task failed and log one error.
C16_TimeoutIsFailure ==
    [][\A i \in 1..Len(tasks) :
         TimedOutAttempt(i)
           => /\ tasks'[i].status # "completed"
              /\ IF variant = "main"
                 THEN RetryAllowed(tasks[i].retries)
                        => tasks'[i].retries = tasks[i].retries + 1
                 ELSE /\ tasks'[i].status = "failed"
                      /\ Len(errors') = Len(errors) + 1]_vars

\* The analyzer has run.
Analyzed == \E k \in 1..Len(trace) : trace[k].node = "analyze"

\* C17: the analyzer of the fail-fast revisions, run on a state without a
\* completed task, does not raise and leaves an analysis with findings, with
\* recommendations, and with a risk_assessment of low, medium or unknown.
C17_AnalyzerFallback ==
    (/\ variant \in {"scanner", "src_scanner"}
     /\ Analyzed
     /\ \A i \in 1..Len(tasks) : tasks[i].status # "completed")
      => /\ pc # "RAISED"
         /\ analysis # None
         /\ analysis[1].findings # <<>>
         /\ analysis[1].recommendations # <<>>
         /\ analysis[1].risk_assessment \in {"low", "medium", "unknown"}

\* C18: once the analyzer of the fail-fast revisions has run, the analysis
\* carries findings, recommendations and risk_assessment.
C18_AnalysisComplete ==
    (variant \in {"scanner", "src_scanner"} /\ Analyzed)
      => /\ analysis # None
         /\ {"findings", "recommendations", "risk_assessment"} \subseteq analysis[1].keys

\* C19: every run reaches the terminal state, in each revision, also when
\* the updater appends tasks on the way.
C19_Terminates == <>(pc = "END")

\* A run of the four-stage revision ended after the updater had appended a
\* task and that task had been executed.
C19_Witness ==
    /\ pc = "END"
    /\ variant = "main"
    /\ PlannedLen > 0
    /\ Len(tasks) > PlannedLen
    /\ PlannedLen \in ExecutedIndices

\* C20: after planning no step shortens the task list, and every task keeps
\* its place, its tool and its params.
C20_TasksAppendOnly ==
    [][pc # "plan"
         => /\ Len(tasks') >= Len(tasks)
            /\ \A i \in 1..Len(tasks) :
                 /\ tasks'[i].tool = tasks[i].tool
                 /\ tasks'[i].target = tasks[i].target
                 /\ tasks'[i].flags = tasks[i].flags]_vars

\* Both planned tasks were executed, the updater appended a third, and the
\* planned tasks stand where the planner put them.
C20_Witness ==
    /\ variant = "main"
    /\ PlannedLen = 2
    /\ Len(tasks) = 3
    /\ {0, 1, 2} \subseteq ExecutedIndices
    /\ \A i \in 1..2 : /\ tasks[i].tool = plan[1].tasks[i].tool
                       /\ tasks[i].target = plan[1].tasks[i].target

\* The step runs the analyze node.
AnalyzeStep ==
    trace' = Append(trace, [node |-> "analyze", index |-> current_task_index])

\* C21: the analyze node runs at most once in a run, and only with the cursor
\* at the end of the task list and an empty error log; analysis goes from
\* None to a value and is not written again.
C21_AnalyzerOnce ==
    /\ [][AnalyzeStep => /\ ~Analyzed
                         /\ current_task_index = Len(tasks)
                         /\ errors = <<>>]_vars
    /\ [][analysis' # analysis => (analysis = None /\ analysis' # None)]_vars

\* The scenario: the planner returned one nmap task, the run is over, the
\* task's execution succeeded and the analyzer answered without new targets
\* (src/main.py) or with one low-severity finding and risk low.
ScenarioRun ==
    /\ pc = "END"
    /\ plan # None
    /\ plan[1].kind = "json"
    /\ plan[1].tasks = <<[tool |-> "nmap", target |-> "h1",
                          fields |-> {"tool", "params"}]>>
    /\ tasks # <<>>
    /\ tasks[1].status = "completed"
    /\ Analyzed
    /\ ~InSeq("Analysis error", errors)
    /\ IF variant = "main"
       THEN /\ tasks[1].analysis # None
            /\ tasks[1].analysis[1].new_targets = <<>>
       ELSE /\ analysis # None
            /\ analysis[1].findings = <<LowFinding>>
            /\ analysis[1].risk_assessment = "low"

\* C22: the scenario ends with an empty error log, one task, that task
\* completed, and an analysis.
C22_EndToEnd ==
    ScenarioRun
      => /\ errors = <<>>
         /\ Len(tasks) = 1
         /\ tasks[1].status = "completed"
         /\ analysis # None

\* The step runs the update node.
UpdateStep ==
    trace' = Append(trace, [node |-> "update", index |-> current_task_index])

\* C23: in the four-stage revision update is followed by execute only when
\* the updater appended a task and the cursor moves on to a task of the
\* list; otherwise update is followed by the terminal state.
C23_UpdateRouting ==
    [][(variant = "main" /\ UpdateStep)
         => IF pc' = "execute"
            THEN /\ Len(tasks') > Len(tasks)
                 /\ current_task_index' < Len(tasks')
            ELSE pc' = "END"]_vars

\* C24: in the retry revision an attempt that fails while the task's retries
\* are below 3 adds one to the task's retries, sets it pending, and leaves
\* the error log, the cursor, the task's result and all other tasks alone.
C24_RetryFrame ==
    [][\A i \in 1..Len(tasks) :
         (/\ variant = "main"
          /\ AttemptOn(i)
          /\ tasks'[i].status # "completed"
          /\ tasks[i].retries < MaxRetries)
           => /\ tasks'[i].retries = tasks[i].retries + 1
              /\ tasks'[i].status = "pending"
              /\ tasks'[i].result = tasks[i].result
              /\ errors' = errors
              /\ current_task_index' = current_task_index
              /\ Len(tasks') = Len(tasks)
              /\ \A j \in 1..Len(tasks) : j # i => tasks'[j] = tasks[j]]_vars

\* A second task stands in the list while the first has failed twice and is
\* pending again, nothing logged.
C24_Witness ==
    /\ variant = "main"
    /\ Len(tasks) = 2
    /\ current_task_index = 0
    /\ tasks[1].retries = 2
    /\ tasks[1].status = "pending"
    /\ tasks[1].result = None
    /\ errors = <<>>

\* C25: a completed task is not handed to the executor again: it stays
\* completed and keeps its result.
C25_CompletedStays ==
    [][\A i \in 1..Len(tasks) :
         tasks[i].status = "completed"
           => /\ ~AttemptOn(i)
              /\ Len(tasks') >= i
              /\ tasks'[i].status = "completed"
              /\ tasks'[i].result = tasks[i].result]_vars

\* The first task is completed and the executor has gone on to the second.
C25_Witness ==
    /\ Len(tasks) >= 2
    /\ tasks[1].status = "completed"
    /\ tasks[1].result # None
    /\ 1 \in ExecutedIndices
    /\ pc = "END"

\* C26: when the analyzer of the fail-fast revisions is about to run, the
\* task list is not empty and every task in it is completed with a result
\* whose output is not empty: the summary is never empty.
C26_AnalyzerSeesAllCompleted ==
    (pc = "analyze" /\ variant \in {"scanner", "src_scanner"})
      => /\ tasks # <<>>
         /\ Summarised(tasks) = 1..Len(tasks)
         /\ \A i \in 1..Len(tasks) : tasks[i].result[1].output # ""

\* The router hands two completed tasks to the analyzer of src/scanner.py.
C26_Witness ==
    /\ pc = "analyze"
    /\ variant = "scanner"
    /\ Len(tasks) = 2
    /\ current_task_index = 2
    /\ \A i \in 1..2 : tasks[i].status = "completed"

\* tasks[i] is as the planner or the updater seeded it.
Untouched(i) ==
    /\ tasks[i].status = "pending"
    /\ tasks[i].retries = 0
    /\ tasks[i].result = None

\* C27: every task beyond the cursor is untouched, and in the fail-fast
\* revisions the task at the cursor is untouched as well.
C27_BeyondCursorUntouched ==
    \A i \in 1..Len(tasks) :
      ((i - 1) > current_task_index
         \/ (variant \in {"scanner", "src_scanner"} /\ (i - 1) = current_task_index))
        => Untouched(i)

\* The first task is completed, the cursor is on the second, and a third,
\* appended by the updater, waits untouched.
C27_Witness ==
    /\ variant = "main"
    /\ pc = "execute"
    /\ current_task_index = 1
    /\ PlannedLen = 2
    /\ Len(tasks) = 3
    /\ tasks[1].status = "completed"
    /\ tasks[3].status = "pending"

\* C28: between stages and at the end of the run no task is running, and an
\* execution attempt leaves its task completed, failed or pending and the
\* status of every other task as it was.
C28_NoRunningAtBoundary ==
    /\ [](\A i \in 1..Len(tasks) : tasks[i].status # "running")
    /\ [][\A i \in 1..Len(tasks) :
            AttemptOn(i)
              => /\ tasks'[i].status \in {"completed", "failed", "pending"}
                 /\ \A j \in 1..Len(tasks) :
                      j # i => tasks'[j].status = tasks[j].status]_vars

\* A fail-fast run ended on a failed attempt: the task was marked running,
\* the attempt raised, and the task stands failed.
C28_Witness ==
    /\ variant = "scanner"
    /\ pc = "END"
    /\ Len(tasks) = 2
    /\ tasks[1].status = "completed"
    /\ tasks[2].status = "failed"
    /\ ExecutedIndices = {0, 1}
====
